---- MODULE Spec2Model ----
(***************************************************************************)
(* jumpkwapp: activate (or cycle through) the windows matching a filter,   *)
(* or else launch a fallback command.                                      *)
(*                                                                         *)
(* Two components are modelled:                                            *)
(*   - the Selector/Cycler script that runs inside the compositor          *)
(*     (src/kwin_script_template.js, embedded in src/main.go), and         *)
(*   - the Orchestrator process (src/main.go: main, run and its helpers).  *)
(*                                                                         *)
(* Strings are sequences of one-character strings.  Regular expressions    *)
(* are restricted to literal patterns, so that RegExp.exec is a substring  *)
(* search (case-folded under the 'i' flag).                                *)
(***************************************************************************)
EXTENDS Integers, Sequences, FiniteSets, TLC

(***************************************************************************)
(* Bounds of the model.                                                    *)
(***************************************************************************)
NumWindows == 3
MaxRuns == 3
MaxSpurious == 1

(***************************************************************************)
(* Values.                                                                 *)
(***************************************************************************)
None == "none"
NoWindow == 0
Undefined == "undefined"
\* a window without the desktops property
UndefinedDesktops == {Undefined}
Desktop1 == "d1"
Desktop2 == "d2"
EmptyString == << >>

BS == "\\"
SQ == "'"
NL == "nl"
CR == "cr"
TAB == "tab"

Konsole == <<"K", "o">>
Dolphin == <<"D">>
TrueString == <<"t", "r", "u", "e">>
FalseString == <<"f", "a", "l", "s", "e">>
UpperTrueString == <<"T", "R", "U", "E">>
UniqueName == <<":", "1">>

Windows == 1..NumWindows

(***************************************************************************)
(* String helpers.                                                         *)
(***************************************************************************)
Lower(c) ==
    CASE c = "K" -> "k"
      [] c = "D" -> "d"
      [] c = "O" -> "o"
      [] c = "T" -> "t"
      [] c = "R" -> "r"
      [] c = "U" -> "u"
      [] c = "E" -> "e"
      [] OTHER -> c

ToLower(s) == [i \in 1..Len(s) |-> Lower(s[i])]

\* strings.EqualFold restricted to the letters of the alphabet
EqualFold(s, t) == ToLower(s) = ToLower(t)

\* pattern found anywhere in s
IsSubstring(p, s) ==
    \E i \in 0..(Len(s) - Len(p)) : SubSeq(s, i + 1, i + Len(p)) = p

\* new RegExp(pattern, flags).exec(s) !== null, for a literal pattern
RegExpExec(pattern, ignoreCase, s) ==
    IF ignoreCase
    THEN IsSubstring(ToLower(pattern), ToLower(s))
    ELSE IsSubstring(pattern, s)

jsReplacerNoBackslash(c) ==
    CASE c = SQ  -> <<BS, SQ>>
      [] c = NL  -> <<BS, "n">>
      [] c = CR  -> <<BS, "r">>
      [] c = TAB -> <<BS, "t">>
      [] OTHER   -> <<c>>

\* one replacement of jsReplacer
jsReplacer(c) ==
    CASE c = BS  -> <<BS, BS>>
      [] c = SQ  -> <<BS, SQ>>
      [] c = NL  -> <<BS, "n">>
      [] c = CR  -> <<BS, "r">>
      [] c = TAB -> <<BS, "t">>
      [] OTHER   -> <<c>>

RECURSIVE escapeForJS(_)
escapeForJS(value) ==
    IF value = << >> THEN << >>
    ELSE jsReplacer(Head(value)) \o escapeForJS(Tail(value))

\* the character a JavaScript single-character escape \c denotes
JSEscapeValue(c) ==
    CASE c = "n" -> NL
      [] c = "r" -> CR
      [] c = "t" -> TAB
      [] OTHER   -> c

\* the value of the JavaScript literal '<text>': the literal ends at the
\* first unescaped quote
RECURSIVE JSLiteralValue(_)
JSLiteralValue(text) ==
    IF text = << >> THEN << >>
    ELSE IF Head(text) = SQ THEN << >>
    ELSE IF Head(text) = BS
         THEN IF Len(text) = 1 THEN << >>
              ELSE <<JSEscapeValue(text[2])>> \o JSLiteralValue(Tail(Tail(text)))
    ELSE <<Head(text)>> \o JSLiteralValue(Tail(text))

\* the fields of the rendered script: four escaped literals, two booleans
renderScript(p) ==
    [ClassName          |-> escapeForJS(p.ClassName),
     CaptionPattern     |-> escapeForJS(p.CaptionPattern),
     ClassRegex         |-> escapeForJS(p.ClassRegex),
     Toggle             |-> p.Toggle,
     CurrentDesktopOnly |-> p.CurrentDesktopOnly,
     DBusAddress        |-> escapeForJS(p.DBusAddress)]

\* the arguments of the kwinActivateClient call at the end of the script
ScriptArgs(r) ==
    [clientClass        |-> JSLiteralValue(r.ClassName),
     clientCaption      |-> JSLiteralValue(r.CaptionPattern),
     clientClassRegex   |-> JSLiteralValue(r.ClassRegex),
     toggle             |-> r.Toggle,
     currentDesktopOnly |-> r.CurrentDesktopOnly,
     dbusAddr           |-> JSLiteralValue(r.DBusAddress)]

(***************************************************************************)
(* Selector: src/kwin_script_template.js                                   *)
(***************************************************************************)
\* workspace.windowList(): host enumeration order
windowList == [i \in 1..NumWindows |-> i]

isOnCurrentDesktopFailClosed(client, currentDesktop) ==
    IF client.onAllDesktops THEN TRUE
    ELSE IF currentDesktop # Undefined /\ client.desktops # UndefinedDesktops
         THEN currentDesktop \in client.desktops
         ELSE FALSE

isOnCurrentDesktop(client, currentDesktop) ==
    IF client.onAllDesktops THEN TRUE
    ELSE IF currentDesktop # Undefined /\ client.desktops # UndefinedDesktops
         THEN currentDesktop \in client.desktops
         ELSE TRUE

ClientMatchesCaptionAlways(client, clientClass, clientCaption, clientClassRegex, currentDesktopOnly, currentDesktop) ==
    LET isCompareToClass == Len(clientClass) > 0
        isCompareToRegex == Len(clientClassRegex) > 0
        classCompare == isCompareToClass /\ client.resourceClass = clientClass
        classRegexCompare ==
            isCompareToRegex
            /\ RegExpExec(clientClassRegex, FALSE, client.resourceClass)
        captionCompare == RegExpExec(clientCaption, TRUE, client.caption)
    IN  (classCompare \/ classRegexCompare \/ captionCompare)
        /\ ~(currentDesktopOnly /\ ~isOnCurrentDesktop(client, currentDesktop))

\* the test of one window in the loop of findMatchingClients
\* the test of one window in the loop of findMatchingClients
ClientMatches(client, clientClass, clientCaption, clientClassRegex, currentDesktopOnly, currentDesktop) ==
    LET isCompareToClass == Len(clientClass) > 0
        isCompareToRegex == Len(clientClassRegex) > 0
        classCompare == isCompareToClass /\ client.resourceClass = clientClass
        classRegexCompare ==
            isCompareToRegex
            /\ RegExpExec(clientClassRegex, FALSE, client.resourceClass)
        captionCompare ==
            ~isCompareToClass /\ ~isCompareToRegex
            /\ RegExpExec(clientCaption, TRUE, client.caption)
    IN  (classCompare \/ classRegexCompare \/ captionCompare)
        /\ ~(currentDesktopOnly /\ ~isOnCurrentDesktop(client, currentDesktop))

findMatchingClients(w, currentDesktop, clientClass, clientCaption, clientClassRegex, currentDesktopOnly) ==
    SelectSeq(windowList,
              LAMBDA id : ClientMatches(w[id], clientClass, clientCaption,
                                        clientClassRegex, currentDesktopOnly,
                                        currentDesktop))

(***************************************************************************)
(* Cycler: src/kwin_script_template.js                                     *)
(***************************************************************************)
\* insertion of x into a list sorted by ascending stackingOrder, after
\* every element that does not compare greater (stable)
RECURSIVE InsertByStacking(_, _, _)
InsertByStacking(w, x, sorted) ==
    IF sorted = << >> THEN <<x>>
    ELSE IF w[x].stackingOrder - w[Head(sorted)].stackingOrder < 0
         THEN <<x>> \o sorted
         ELSE <<Head(sorted)>> \o InsertByStacking(w, x, Tail(sorted))

\* matchingClients.sort(function (a, b) { return a.stackingOrder - b.stackingOrder; })
SortByStackingUnsorted(w, clients) == clients

RECURSIVE SortByStacking(_, _)
SortByStacking(w, clients) ==
    IF clients = << >> THEN << >>
    ELSE InsertByStacking(w, clients[Len(clients)],
                          SortByStacking(w, SubSeq(clients, 1, Len(clients) - 1)))

\* the loop that looks for the active window among the matches
ActiveIsMatching(activeWindow, clients) ==
    \E j \in 1..Len(clients) : activeWindow = clients[j]


(***************************************************************************)
(* State.                                                                  *)
(***************************************************************************)
VARIABLES
    win,              \* host: window id -> attributes of the window
    workspace,        \* host: activeWindow, currentDesktop
    scriptLoaded,     \* host: the script object /Scripting/Script<id> exists
    scriptPc,         \* host: position of the script's evaluation
    args,             \* host: arguments of the kwinActivateClient call
    matchingClients,  \* script: local variable of kwinActivateClient
    inflight,         \* bus: ShouldLaunch calls sent, not yet handled
    cfg,              \* run: the parsed flags
    pc,               \* run/main: position
    defers,           \* run: stack of deferred calls
    err,              \* run: the error returned
    connOpen,         \* run: the session bus connection is open
    dbusAddress,      \* run: local variable
    tempFile,         \* the temporary script file exists
    stopped,          \* run: local variable
    exported,         \* the listener is exported on the bus
    ch,               \* launchListener.ch
    runReply,         \* reply of the run call, not yet read
    shouldLaunch,     \* run: local variable
    bgPc,             \* the goroutine started by the deferred stop
    exitCode,         \* main: exit status of the process
    obs,              \* observations of the script's invocations
    log               \* observations of the Orchestrator's calls

hostVars == <<win, workspace, scriptLoaded, scriptPc, args, matchingClients, inflight>>
runVars == <<cfg, pc, defers, err, connOpen, dbusAddress, tempFile, stopped,
             exported, ch, runReply, shouldLaunch, bgPc, exitCode>>
vars == <<win, workspace, scriptLoaded, scriptPc, args, matchingClients, inflight,
          cfg, pc, defers, err, connOpen, dbusAddress, tempFile, stopped,
          exported, ch, runReply, shouldLaunch, bgPc, exitCode, obs, log>>

(***************************************************************************)
(* The script's evaluation inside the host.                                *)
(***************************************************************************)
\* order of the statements of kwinActivateClient: find the matches, signal,
\* then activate or toggle (n is matchingClients.length)
ScriptNextPcActFirst(at, n) ==
    CASE at = "find"   -> IF n = 0 THEN "signal" ELSE "act"
      [] at = "act"    -> "signal"
      [] at = "signal" -> "done"

ScriptNextPc(at, n) ==
    CASE at = "find"   -> "signal"
      [] at = "signal" -> IF n = 0 THEN "done" ELSE "act"
      [] at = "act"    -> "done"

\* callDBus(dbusAddr, '/org/jumpkwapp/Listener', 'org.jumpkwapp.Listener',
\*          'ShouldLaunch', decision): asynchronous call on the bus
callDBus(queue, decision) == Append(queue, decision)

\* var matchingClients = findMatchingClients(...)
ScriptFind ==
    /\ scriptPc = "find"
    /\ matchingClients' = findMatchingClients(win, workspace.currentDesktop,
                              args.clientClass, args.clientCaption,
                              args.clientClassRegex, args.currentDesktopOnly)
    /\ scriptPc' = ScriptNextPc("find", Len(matchingClients'))
    /\ obs' = [obs EXCEPT !.runs = @ + 1,
                          !.preActive = workspace.activeWindow,
                          !.preWin = win,
                          !.sent = << >>,
                          !.setActiveCalls = 0,
                          !.toggles = 0,
                          !.activated = NoWindow,
                          !.prevActivated = obs.activated,
                          !.prevMatches = obs.matches,
                          !.actives = Append(@, workspace.activeWindow),
                          !.matches = {matchingClients'[i] : i \in 1..Len(matchingClients')}]
    /\ UNCHANGED <<win, workspace, scriptLoaded, args, inflight, log>>
    /\ UNCHANGED runVars

\* the signal sent when dbusAddr is set: 'true' for no match, 'false' otherwise
SignalSwapped(n, dbusAddr) ==
    IF dbusAddr # EmptyString
    THEN IF n = 0 THEN <<FalseString>> ELSE <<TrueString>>
    ELSE << >>

SignalFor(n, dbusAddr) ==
    IF dbusAddr # EmptyString
    THEN IF n = 0 THEN <<TrueString>> ELSE <<FalseString>>
    ELSE << >>

\* if (matchingClients.length === 0) { if (dbusAddr) callDBus(.., 'true'); return; }
\* if (dbusAddr) callDBus(.., 'false');
ScriptSignal ==
    /\ scriptPc = "signal"
    /\ LET n == Len(matchingClients)
           signal == SignalFor(n, args.dbusAddr)
       IN  /\ inflight' = IF signal = << >> THEN inflight
                          ELSE callDBus(inflight, signal[1])
           /\ obs' = [obs EXCEPT !.sent = @ \o signal]
           /\ scriptPc' = ScriptNextPc("signal", n)
    /\ UNCHANGED <<win, workspace, scriptLoaded, args, matchingClients, log>>
    /\ UNCHANGED runVars

\* function setActiveClient(client) { workspace.activeWindow = client; }
setActiveClient(ws, client) == [ws EXCEPT !.activeWindow = client]

\* the window the multiple-match branch activates, given the sorted matches
CycleTargetAlwaysLast(sorted, activeIsMatching) == sorted[Len(sorted)]

CycleTarget(sorted, activeIsMatching) ==
    IF activeIsMatching THEN sorted[1] ELSE sorted[Len(sorted)]

\* var activeWindow = workspace.activeWindow; then the one-match branch or
\* the multiple-match branch
ScriptActToggleUnasked ==
    /\ scriptPc = "act"
    /\ LET activeWindow == workspace.activeWindow
           n == Len(matchingClients)
           client == matchingClients[1]
           activeIsMatching == ActiveIsMatching(activeWindow, matchingClients)
           sorted == SortByStacking(win, matchingClients)
           target == CycleTarget(sorted, activeIsMatching)
       IN  \/ /\ n = 1
              /\ activeWindow # client
              /\ workspace' = setActiveClient(workspace, client)
              /\ obs' = [obs EXCEPT !.setActiveCalls = @ + 1,
                                    !.activated = client]
              /\ UNCHANGED <<win, matchingClients>>
           \/ /\ n = 1
              /\ activeWindow = client
              /\ win' = [win EXCEPT ![client].minimized = ~@]
              /\ obs' = [obs EXCEPT !.toggles = @ + 1]
              /\ UNCHANGED <<workspace, matchingClients>>
           \/ /\ n > 1
              /\ matchingClients' = sorted
              /\ workspace' = setActiveClient(workspace, target)
              /\ obs' = [obs EXCEPT !.setActiveCalls = @ + 1,
                                    !.activated = target]
              /\ UNCHANGED win
    /\ scriptPc' = ScriptNextPc("act", Len(matchingClients))
    /\ UNCHANGED <<scriptLoaded, args, inflight, log>>
    /\ UNCHANGED runVars

ScriptActToggleMulti ==
    /\ scriptPc = "act"
    /\ LET activeWindow == workspace.activeWindow
           n == Len(matchingClients)
           client == matchingClients[1]
           activeIsMatching == ActiveIsMatching(activeWindow, matchingClients)
           sorted == SortByStacking(win, matchingClients)
           target == CycleTarget(sorted, activeIsMatching)
       IN  \/ /\ n = 1
              /\ activeWindow # client
              /\ workspace' = setActiveClient(workspace, client)
              /\ obs' = [obs EXCEPT !.setActiveCalls = @ + 1,
                                    !.activated = client]
              /\ UNCHANGED <<win, matchingClients>>
           \/ /\ n = 1
              /\ activeWindow = client
              /\ args.toggle
              /\ win' = [win EXCEPT ![client].minimized = ~@]
              /\ obs' = [obs EXCEPT !.toggles = @ + 1]
              /\ UNCHANGED <<workspace, matchingClients>>
           \/ /\ n = 1
              /\ activeWindow = client
              /\ ~args.toggle
              /\ UNCHANGED <<win, workspace, matchingClients, obs>>
           \/ /\ n > 1
              /\ matchingClients' = sorted
              /\ workspace' = setActiveClient(workspace, target)
              /\ obs' = [obs EXCEPT !.setActiveCalls = @ + 1,
                                    !.activated = target,
                                    !.toggles = IF args.toggle /\ activeWindow = target
                                                THEN @ + 1 ELSE @]
              /\ win' = IF args.toggle /\ activeWindow = target
                        THEN [win EXCEPT ![target].minimized = ~@]
                        ELSE win
    /\ scriptPc' = ScriptNextPc("act", Len(matchingClients))
    /\ UNCHANGED <<scriptLoaded, args, inflight, log>>
    /\ UNCHANGED runVars

ScriptAct ==
    /\ scriptPc = "act"
    /\ LET activeWindow == workspace.activeWindow
           n == Len(matchingClients)
           client == matchingClients[1]
           activeIsMatching == ActiveIsMatching(activeWindow, matchingClients)
           sorted == SortByStacking(win, matchingClients)
           target == CycleTarget(sorted, activeIsMatching)
       IN  \/ /\ n = 1
              /\ activeWindow # client
              /\ workspace' = setActiveClient(workspace, client)
              /\ obs' = [obs EXCEPT !.setActiveCalls = @ + 1,
                                    !.activated = client]
              /\ UNCHANGED <<win, matchingClients>>
           \/ /\ n = 1
              /\ activeWindow = client
              /\ args.toggle
              /\ win' = [win EXCEPT ![client].minimized = ~@]
              /\ obs' = [obs EXCEPT !.toggles = @ + 1]
              /\ UNCHANGED <<workspace, matchingClients>>
           \/ /\ n = 1
              /\ activeWindow = client
              /\ ~args.toggle
              /\ UNCHANGED <<win, workspace, matchingClients, obs>>
           \/ /\ n > 1
              /\ matchingClients' = sorted
              /\ workspace' = setActiveClient(workspace, target)
              /\ obs' = [obs EXCEPT !.setActiveCalls = @ + 1,
                                    !.activated = target]
              /\ UNCHANGED win
    /\ scriptPc' = ScriptNextPc("act", Len(matchingClients))
    /\ UNCHANGED <<scriptLoaded, args, inflight, log>>
    /\ UNCHANGED runVars

\* the host raises the window the script activated above every other window
RaiseWindow(w, client) ==
    [id \in Windows |->
        IF id = client
        THEN [w[id] EXCEPT !.stackingOrder = NumWindows]
        ELSE IF w[id].stackingOrder > w[client].stackingOrder
             THEN [w[id] EXCEPT !.stackingOrder = @ - 1]
             ELSE w[id]]

HostRaise ==
    /\ scriptPc = "done"
    /\ obs.activated # NoWindow
    /\ win[obs.activated].stackingOrder < NumWindows
    /\ win' = RaiseWindow(win, obs.activated)
    /\ UNCHANGED <<workspace, scriptLoaded, scriptPc, args, matchingClients,
                   inflight, obs, log>>
    /\ UNCHANGED runVars

\* a further invocation of the program with the same flags evaluates the
\* script again
CyclerInvoke ==
    /\ scriptPc = "done"
    /\ obs.runs < MaxRuns
    /\ scriptPc' = "find"
    /\ inflight' = << >>
    /\ UNCHANGED <<win, workspace, scriptLoaded, args, matchingClients, obs, log>>
    /\ UNCHANGED runVars

(***************************************************************************)
(* Initial states.                                                         *)
(***************************************************************************)
StackingOrders == {p \in [Windows -> Windows] : \A a, b \in Windows : a # b => p[a] # p[b]}

Caption == <<"K", "o">>

MakeWindow(class, minimized, order) ==
    [resourceClass |-> class, caption |-> Caption, onAllDesktops |-> FALSE,
     desktops |-> {Desktop1}, minimized |-> minimized, stackingOrder |-> order]

InitObs ==
    [runs |-> 0, preActive |-> NoWindow, preWin |-> << >>, sent |-> << >>,
     setActiveCalls |-> 0, toggles |-> 0,
     activated |-> NoWindow, prevActivated |-> NoWindow, prevMatches |-> {},
     actives |-> << >>, matches |-> {}]

InitLog ==
    [stopCalls |-> 0, launchCalls |-> 0, launchedAfterStop |-> TRUE,
     handled |-> << >>, dropped |-> 0, spurious |-> 0, received |-> FALSE,
     early |-> FALSE, loadOk |-> FALSE, runOk |-> FALSE, stopOk |-> FALSE,
     hostCalls |-> 0]

InitRunIdle(position) ==
    /\ pc = position
    /\ defers = << >>
    /\ err = None
    /\ connOpen = FALSE
    /\ dbusAddress = EmptyString
    /\ tempFile = FALSE
    /\ stopped = FALSE
    /\ exported = FALSE
    /\ ch = << >>
    /\ runReply = None
    /\ shouldLaunch = FALSE
    /\ bgPc = "none"
    /\ exitCode = 0
    /\ log = InitLog

\* the script alone, evaluated for every window list of the bounded size
InitCycler ==
    /\ \E classes \in [Windows -> {Konsole, Dolphin}],
          mins \in [Windows -> BOOLEAN],
          order \in StackingOrders :
          win = [id \in Windows |-> MakeWindow(classes[id], mins[id], order[id])]
    /\ \E a \in Windows \cup {NoWindow} :
          workspace = [activeWindow |-> a, currentDesktop |-> Desktop1]
    /\ \E t \in BOOLEAN, addr \in {EmptyString, UniqueName} :
          args = [clientClass |-> Konsole, clientCaption |-> EmptyString,
                  clientClassRegex |-> EmptyString, toggle |-> t,
                  currentDesktopOnly |-> FALSE, dbusAddr |-> addr]
    /\ cfg = [filterClass |-> Konsole, filterAlt |-> EmptyString,
              filterRegex |-> EmptyString, currentDesktop |-> FALSE,
              toggle |-> args.toggle, command |-> args.dbusAddr]
    /\ scriptLoaded = TRUE
    /\ scriptPc = "find"
    /\ matchingClients = << >>
    /\ inflight = << >>
    /\ obs = InitObs
    /\ InitRunIdle("none")

(***************************************************************************)
\* the Selector alone: one window of every class, caption and desktop
\* membership, under every FilterSpec with a filter set
ClassValues == {Konsole, <<"k", "o">>, <<"K">>, <<"K", "o", "n">>, Dolphin}
CaptionValues == {<<"K", "o">>, <<"D">>}
DesktopSets == {{Desktop1}, {Desktop2}, {}, UndefinedDesktops}

FilterSpecs ==
    {f \in [clientClass : {EmptyString, Konsole},
            clientClassRegex : {EmptyString, <<"o">>},
            clientCaption : {EmptyString, <<"k">>},
            currentDesktopOnly : BOOLEAN] :
        \/ f.clientClass # EmptyString
        \/ f.clientClassRegex # EmptyString
        \/ f.clientCaption # EmptyString}

InitSelector ==
    /\ \E class \in ClassValues, caption \in CaptionValues,
          onAll \in BOOLEAN, desks \in DesktopSets :
          win = [id \in Windows |->
                    IF id = 1
                    THEN [resourceClass |-> class, caption |-> caption,
                          onAllDesktops |-> onAll, desktops |-> desks,
                          minimized |-> FALSE, stackingOrder |-> id]
                    ELSE MakeWindow(Dolphin, FALSE, id)]
    /\ \E cd \in {Desktop1, Undefined} :
          workspace = [activeWindow |-> NoWindow, currentDesktop |-> cd]
    /\ \E f \in FilterSpecs :
          /\ args = [clientClass |-> f.clientClass,
                     clientCaption |-> f.clientCaption,
                     clientClassRegex |-> f.clientClassRegex,
                     toggle |-> FALSE,
                     currentDesktopOnly |-> f.currentDesktopOnly,
                     dbusAddr |-> EmptyString]
          /\ cfg = [filterClass |-> f.clientClass, filterAlt |-> f.clientCaption,
                    filterRegex |-> f.clientClassRegex,
                    currentDesktop |-> f.currentDesktopOnly,
                    toggle |-> FALSE, command |-> EmptyString]
    /\ scriptLoaded = TRUE
    /\ scriptPc = "find"
    /\ matchingClients = << >>
    /\ inflight = << >>
    /\ obs = InitObs
    /\ InitRunIdle("none")

NextSelector ==
    \/ ScriptFind
    \/ ScriptSignal
    \/ ScriptAct

SpecSelector == InitSelector /\ [][NextSelector]_vars

(***************************************************************************)

(* Orchestrator: src/main.go                                               *)
(***************************************************************************)
ChanCap == 1

Command == <<"s", "h">>

\* return <error> from run(): the deferred calls run next
Return(e) ==
    /\ err' = e
    /\ pc' = "unwind"

ValidateClassOnly ==
    /\ pc = "start"
    /\ IF cfg.filterClass = EmptyString /\ cfg.filterAlt # EmptyString
          /\ cfg.filterRegex # EmptyString
       THEN Return("no filter")
       ELSE /\ pc' = "connect"
            /\ err' = err
    /\ UNCHANGED <<cfg, defers, connOpen, dbusAddress, tempFile, stopped, exported,
                   ch, runReply, shouldLaunch, bgPc, exitCode, obs, log>>
    /\ UNCHANGED hostVars

\* if cfg.filterClass == "" && cfg.filterAlt == "" && cfg.filterRegex == ""
Validate ==
    /\ pc = "start"
    /\ IF cfg.filterClass = EmptyString /\ cfg.filterAlt = EmptyString
          /\ cfg.filterRegex = EmptyString
       THEN Return("no filter")
       ELSE /\ pc' = "connect"
            /\ err' = err
    /\ UNCHANGED <<cfg, defers, connOpen, dbusAddress, tempFile, stopped, exported,
                   ch, runReply, shouldLaunch, bgPc, exitCode, obs, log>>
    /\ UNCHANGED hostVars

\* conn, err := dbus.SessionBus(); defer conn.Close()
Connect ==
    /\ pc = "connect"
    /\ \/ /\ connOpen' = TRUE
          /\ defers' = Append(defers, "connClose")
          /\ pc' = "uniquename"
          /\ err' = err
          /\ log' = [log EXCEPT !.hostCalls = @ + 1]
       \/ /\ Return("connect to session bus")
          /\ log' = [log EXCEPT !.hostCalls = @ + 1]
          /\ UNCHANGED <<connOpen, defers>>
    /\ UNCHANGED <<cfg, dbusAddress, tempFile, stopped, exported, ch, runReply,
                   shouldLaunch, bgPc, exitCode, obs>>
    /\ UNCHANGED hostVars

\* if cfg.command != "" { dbusAddress, err = getUniqueName(conn) }
GetUniqueName ==
    /\ pc = "uniquename"
    /\ IF cfg.command # EmptyString
       THEN \/ /\ dbusAddress' = UniqueName
               /\ pc' = "render"
               /\ err' = err
            \/ /\ Return("get unique bus name")
               /\ dbusAddress' = dbusAddress
       ELSE /\ pc' = "render"
            /\ UNCHANGED <<dbusAddress, err>>
    /\ UNCHANGED <<cfg, defers, connOpen, tempFile, stopped, exported, ch, runReply,
                   shouldLaunch, bgPc, exitCode, obs, log>>
    /\ UNCHANGED hostVars

\* script, err := renderScript(...); scriptFile, err := writeTempScript(script);
\* defer os.Remove(scriptFile)
WriteTempScript ==
    /\ pc = "render"
    /\ \/ /\ tempFile' = TRUE
          /\ defers' = Append(defers, "removeFile")
          /\ pc' = "load"
          /\ err' = err
       \/ /\ Return("create temp script")
          /\ UNCHANGED <<tempFile, defers>>
    /\ UNCHANGED <<cfg, connOpen, dbusAddress, stopped, exported, ch, runReply,
                   shouldLaunch, bgPc, exitCode, obs, log>>
    /\ UNCHANGED hostVars

\* scriptPath, err := loadKWinScript(conn, scriptFile); stopped := false;
\* defer func() { ... }()
LoadKWinScript ==
    /\ pc = "load"
    /\ \/ /\ scriptLoaded' = TRUE
          /\ args' = ScriptArgs(renderScript(
                        [ClassName          |-> cfg.filterClass,
                         CaptionPattern     |-> cfg.filterAlt,
                         ClassRegex         |-> cfg.filterRegex,
                         Toggle             |-> cfg.toggle,
                         CurrentDesktopOnly |-> cfg.currentDesktop,
                         DBusAddress        |-> dbusAddress]))
          /\ stopped' = FALSE
          /\ defers' = Append(defers, "stopGuard")
          /\ pc' = "export"
          /\ err' = err
          /\ log' = [log EXCEPT !.loadOk = TRUE, !.hostCalls = @ + 1]
       \/ /\ Return("load KWin script")
          /\ log' = [log EXCEPT !.hostCalls = @ + 1]
          /\ UNCHANGED <<scriptLoaded, args, stopped, defers>>
    /\ UNCHANGED <<cfg, connOpen, dbusAddress, tempFile, exported, ch, runReply,
                   shouldLaunch, bgPc, exitCode, obs>>
    /\ UNCHANGED <<win, workspace, scriptPc, matchingClients, inflight>>

\* if cfg.command != "" { listener = &launchListener{ch: make(chan bool, 1)};
\*   conn.Export(listener, ...); defer conn.Export(nil, ...) }
Export ==
    /\ pc = "export"
    /\ IF cfg.command # EmptyString
       THEN \/ /\ exported' = TRUE
               /\ ch' = << >>
               /\ defers' = Append(defers, "unexport")
               /\ pc' = "run"
               /\ err' = err
            \/ /\ Return("export listener on D-Bus")
               /\ UNCHANGED <<exported, ch, defers>>
       ELSE /\ pc' = "run"
            /\ UNCHANGED <<exported, ch, defers, err>>
    /\ UNCHANGED <<cfg, connOpen, dbusAddress, tempFile, stopped, runReply,
                   shouldLaunch, bgPc, exitCode, obs, log>>
    /\ UNCHANGED hostVars

\* scriptObj.Call(kwinScriptIface+".run", 0): the host starts the script, or
\* the call fails
CallRun ==
    /\ pc = "run"
    /\ pc' = "run reply"
    /\ \/ /\ scriptPc' = "find"
          /\ runReply' = "ok"
       \/ /\ scriptPc' = scriptPc
          /\ runReply' = "error"
    /\ log' = [log EXCEPT !.hostCalls = @ + 1]
    /\ UNCHANGED <<cfg, defers, err, connOpen, dbusAddress, tempFile, stopped,
                   exported, ch, shouldLaunch, bgPc, exitCode, obs>>
    /\ UNCHANGED <<win, workspace, scriptLoaded, args, matchingClients, inflight>>

\* if err := scriptObj.Call(...).Err; err != nil { return ... }
\* if cfg.command == "" { return nil }
RunReply ==
    /\ pc = "run reply"
    /\ IF runReply = "error"
       THEN /\ Return("run KWin script")
            /\ log' = log
       ELSE /\ log' = [log EXCEPT !.runOk = TRUE]
            /\ IF cfg.command = EmptyString
               THEN Return(None)
               ELSE /\ pc' = "wait"
                    /\ err' = err
    /\ runReply' = None
    /\ UNCHANGED <<cfg, defers, connOpen, dbusAddress, tempFile, stopped, exported,
                   ch, shouldLaunch, bgPc, exitCode, obs>>
    /\ UNCHANGED hostVars

\* select { case l.ch <- v: default: }
TrySendOverwrite(queue, v) == <<v>>

TrySend(queue, v) ==
    IF Len(queue) < ChanCap THEN Append(queue, v) ELSE queue

\* the bus dispatches one ShouldLaunch call to the exported listener
ShouldLaunch ==
    /\ inflight # << >>
    /\ exported
    /\ connOpen
    /\ pc # "exited"
    /\ LET decision == Head(inflight)
           v == EqualFold(decision, TrueString)
       IN  /\ ch' = TrySend(ch, v)
           /\ log' = [log EXCEPT !.handled = Append(@, v),
                                 !.dropped = IF Len(ch) < ChanCap THEN @ ELSE @ + 1,
                                 !.early = @ \/ (pc \in {"run", "run reply"} /\ ch = << >>)]
    /\ inflight' = Tail(inflight)
    /\ UNCHANGED <<cfg, pc, defers, err, connOpen, dbusAddress, tempFile, stopped,
                   exported, runReply, shouldLaunch, bgPc, exitCode, obs>>
    /\ UNCHANGED <<win, workspace, scriptLoaded, scriptPc, args, matchingClients>>

\* another bus peer calls the exported ShouldLaunch method
SpuriousCall ==
    /\ exported
    /\ log.spurious < MaxSpurious
    /\ \E decision \in {TrueString, FalseString, UpperTrueString} :
          inflight' = callDBus(inflight, decision)
    /\ log' = [log EXCEPT !.spurious = @ + 1]
    /\ UNCHANGED <<win, workspace, scriptLoaded, scriptPc, args, matchingClients, obs>>
    /\ UNCHANGED runVars

\* waitForDecision: case decision := <-ch
Receive ==
    /\ pc = "wait"
    /\ ch # << >>
    /\ shouldLaunch' = Head(ch)
    /\ ch' = Tail(ch)
    /\ pc' = "stop"
    /\ log' = [log EXCEPT !.received = TRUE]
    /\ UNCHANGED <<cfg, defers, err, connOpen, dbusAddress, tempFile, stopped,
                   exported, runReply, bgPc, exitCode, obs>>
    /\ UNCHANGED hostVars

\* waitForDecision: case <-time.After(timeout); run returns the error
Timeout ==
    /\ pc = "wait"
    /\ ch = << >>
    /\ Return("timeout waiting for response from KWin script")
    /\ UNCHANGED <<cfg, defers, connOpen, dbusAddress, tempFile, stopped, exported,
                   ch, runReply, shouldLaunch, bgPc, exitCode, obs, log>>
    /\ UNCHANGED hostVars

\* the host evaluates a script synchronously: it serves a stop call before
\* the evaluation begins (the script then never runs) or after it ends
HostCanStop == scriptPc \notin {"signal", "act"}

HostStop ==
    /\ scriptLoaded' = FALSE
    /\ scriptPc' = IF scriptPc = "find" THEN "stopped" ELSE scriptPc

\* if err := stopScript(scriptObj); err != nil { return ... }; stopped = true
StopScript ==
    /\ pc = "stop"
    /\ HostCanStop
    /\ \/ /\ HostStop
          /\ stopped' = TRUE
          /\ pc' = "launch"
          /\ err' = err
          /\ log' = [log EXCEPT !.stopCalls = @ + 1, !.stopOk = TRUE]
       \/ /\ Return("stop KWin script")
          /\ log' = [log EXCEPT !.stopCalls = @ + 1]
          /\ UNCHANGED <<scriptLoaded, scriptPc, stopped>>
    /\ UNCHANGED <<cfg, defers, connOpen, dbusAddress, tempFile, exported, ch,
                   runReply, shouldLaunch, bgPc, exitCode, obs>>
    /\ UNCHANGED <<win, workspace, args, matchingClients, inflight>>

\* if shouldLaunch { if err := launchCommand(cfg.command); ... }; return nil
LaunchAlways ==
    /\ pc = "launch"
    /\ \/ Return(None)
       \/ Return("launch command")
    /\ log' = [log EXCEPT !.launchCalls = @ + 1,
                          !.launchedAfterStop = @ /\ log.stopCalls > 0]
    /\ UNCHANGED <<cfg, defers, connOpen, dbusAddress, tempFile, stopped, exported,
                   ch, runReply, shouldLaunch, bgPc, exitCode, obs>>
    /\ UNCHANGED hostVars

LaunchInverted ==
    /\ pc = "launch"
    /\ IF ~shouldLaunch
       THEN /\ \/ Return(None)
               \/ Return("launch command")
            /\ log' = [log EXCEPT !.launchCalls = @ + 1,
                                  !.launchedAfterStop = @ /\ log.stopCalls > 0]
       ELSE /\ Return(None)
            /\ log' = log
    /\ UNCHANGED <<cfg, defers, connOpen, dbusAddress, tempFile, stopped, exported,
                   ch, runReply, shouldLaunch, bgPc, exitCode, obs>>
    /\ UNCHANGED hostVars

Launch ==
    /\ pc = "launch"
    /\ IF shouldLaunch
       THEN /\ \/ Return(None)
               \/ Return("launch command")
            /\ log' = [log EXCEPT !.launchCalls = @ + 1,
                                  !.launchedAfterStop = @ /\ log.stopCalls > 0]
       ELSE /\ Return(None)
            /\ log' = log
    /\ UNCHANGED <<cfg, defers, connOpen, dbusAddress, tempFile, stopped, exported,
                   ch, runReply, shouldLaunch, bgPc, exitCode, obs>>
    /\ UNCHANGED hostVars

Pop(stack) == SubSeq(stack, 1, Len(stack) - 1)
Top(stack) == stack[Len(stack)]
Deferred(name) == pc = "unwind" /\ defers # << >> /\ Top(defers) = name

\* the deferred function runs and leaves the listener on the bus
DeferUnexportForgets ==
    /\ Deferred("unexport")
    /\ defers' = Pop(defers)
    /\ UNCHANGED <<cfg, pc, err, connOpen, dbusAddress, tempFile, stopped,
                   exported, ch, runReply, shouldLaunch, bgPc, exitCode, obs, log>>
    /\ UNCHANGED hostVars

\* defer func() { _ = conn.Export(nil, listenerObjectPath, listenerInterface) }()
DeferUnexport ==
    /\ Deferred("unexport")
    /\ exported' = FALSE
    /\ defers' = Pop(defers)
    /\ UNCHANGED <<cfg, pc, err, connOpen, dbusAddress, tempFile, stopped, ch,
                   runReply, shouldLaunch, bgPc, exitCode, obs, log>>
    /\ UNCHANGED hostVars

\* defer func() { if stopped { return }; if cfg.command == "" { go func() {...}();
\*   return }; _ = stopScript(scriptObj) }()
DeferStopSkips ==
    /\ Deferred("stopGuard")
    /\ defers' = Pop(defers)
    /\ IF stopped \/ cfg.command # EmptyString
       THEN UNCHANGED <<bgPc, scriptLoaded, scriptPc, log>>
       ELSE /\ bgPc' = "sleeping"
            /\ UNCHANGED <<scriptLoaded, scriptPc, log>>
    /\ UNCHANGED <<cfg, pc, err, connOpen, dbusAddress, tempFile, stopped, exported,
                   ch, runReply, shouldLaunch, exitCode, obs>>
    /\ UNCHANGED <<win, workspace, args, matchingClients, inflight>>

DeferStop ==
    /\ Deferred("stopGuard")
    /\ defers' = Pop(defers)
    /\ IF stopped
       THEN UNCHANGED <<bgPc, scriptLoaded, scriptPc, log>>
       ELSE IF cfg.command = EmptyString
       THEN /\ bgPc' = "sleeping"
            /\ UNCHANGED <<scriptLoaded, scriptPc, log>>
       ELSE /\ HostCanStop
            /\ \/ HostStop
               \/ UNCHANGED <<scriptLoaded, scriptPc>>
            /\ log' = [log EXCEPT !.stopCalls = @ + 1]
            /\ bgPc' = bgPc
    /\ UNCHANGED <<cfg, pc, err, connOpen, dbusAddress, tempFile, stopped, exported,
                   ch, runReply, shouldLaunch, exitCode, obs>>
    /\ UNCHANGED <<win, workspace, args, matchingClients, inflight>>

\* go func() { time.Sleep(150 * time.Millisecond); _ = stopScript(scriptObj) }():
\* runs only while the process lives; on a closed connection the call fails
\* without reaching the host
BackgroundStop ==
    /\ bgPc = "sleeping"
    /\ pc # "exited"
    /\ bgPc' = "done"
    /\ IF connOpen
       THEN /\ HostCanStop
            /\ \/ HostStop
               \/ UNCHANGED <<scriptLoaded, scriptPc>>
            /\ log' = [log EXCEPT !.stopCalls = @ + 1]
       ELSE UNCHANGED <<scriptLoaded, scriptPc, log>>
    /\ UNCHANGED <<cfg, pc, defers, err, connOpen, dbusAddress, tempFile, stopped,
                   exported, ch, runReply, shouldLaunch, exitCode, obs>>
    /\ UNCHANGED <<win, workspace, args, matchingClients, inflight>>

\* defer os.Remove(scriptFile)
DeferRemove ==
    /\ Deferred("removeFile")
    /\ tempFile' = FALSE
    /\ defers' = Pop(defers)
    /\ UNCHANGED <<cfg, pc, err, connOpen, dbusAddress, stopped, exported, ch,
                   runReply, shouldLaunch, bgPc, exitCode, obs, log>>
    /\ UNCHANGED hostVars

\* defer conn.Close()
DeferConnClose ==
    /\ Deferred("connClose")
    /\ connOpen' = FALSE
    /\ exported' = FALSE
    /\ defers' = Pop(defers)
    /\ UNCHANGED <<cfg, pc, err, dbusAddress, tempFile, stopped, ch, runReply,
                   shouldLaunch, bgPc, exitCode, obs, log>>
    /\ UNCHANGED hostVars

\* run() has returned to main
ReturnFromRun ==
    /\ pc = "unwind"
    /\ defers = << >>
    /\ pc' = "returned"
    /\ UNCHANGED <<cfg, defers, err, connOpen, dbusAddress, tempFile, stopped,
                   exported, ch, runReply, shouldLaunch, bgPc, exitCode, obs, log>>
    /\ UNCHANGED hostVars

\* if err := run(cfg); err != nil { ...; os.Exit(1) }: the process exits and
\* its goroutines end with it
MainExit ==
    /\ pc = "returned"
    /\ pc' = "exited"
    /\ exitCode' = IF err # None THEN 1 ELSE 0
    /\ UNCHANGED <<cfg, defers, err, connOpen, dbusAddress, tempFile, stopped,
                   exported, ch, runReply, shouldLaunch, bgPc, obs, log>>
    /\ UNCHANGED hostVars

\* one invocation of the program against a host with a few windows
Init ==
    /\ \E classes \in [Windows -> {Konsole, Dolphin}] :
          win = [id \in Windows |-> MakeWindow(classes[id], FALSE, id)]
    /\ \E a \in {NoWindow, 1} :
          workspace = [activeWindow |-> a, currentDesktop |-> Desktop1]
    /\ \E fc \in {EmptyString, Konsole}, t \in BOOLEAN,
          command \in {EmptyString, Command} :
          cfg = [filterClass |-> fc, filterAlt |-> EmptyString,
                 filterRegex |-> EmptyString, currentDesktop |-> FALSE,
                 toggle |-> t, command |-> command]
    /\ args = [clientClass |-> EmptyString, clientCaption |-> EmptyString,
               clientClassRegex |-> EmptyString, toggle |-> FALSE,
               currentDesktopOnly |-> FALSE, dbusAddr |-> EmptyString]
    /\ scriptLoaded = FALSE
    /\ scriptPc = "idle"
    /\ matchingClients = << >>
    /\ inflight = << >>
    /\ obs = InitObs
    /\ InitRunIdle("start")

Next ==
    \/ Validate
    \/ Connect
    \/ GetUniqueName
    \/ WriteTempScript
    \/ LoadKWinScript
    \/ Export
    \/ CallRun
    \/ RunReply
    \/ ScriptFind
    \/ ScriptSignal
    \/ ScriptAct
    \/ ShouldLaunch
    \/ Receive
    \/ Timeout
    \/ StopScript
    \/ Launch
    \/ DeferUnexport
    \/ DeferStop
    \/ BackgroundStop
    \/ DeferRemove
    \/ DeferConnClose
    \/ ReturnFromRun
    \/ MainExit

Spec == Init /\ [][Next]_vars

\* one invocation of the program with a -f value of backslashes, quotes,
\* line terminators, tabs and letters
MaxStrLen == 3
EscapeAlphabet == {BS, SQ, NL, CR, TAB, "n"}
StringsUpTo(n) == UNION {[1..k -> EscapeAlphabet] : k \in 0..n}

InitEscape ==
    /\ win = [id \in Windows |->
                 MakeWindow(IF id = 1 THEN <<"n">> ELSE Dolphin, FALSE, id)]
    /\ workspace = [activeWindow |-> NoWindow, currentDesktop |-> Desktop1]
    /\ \E value \in StringsUpTo(MaxStrLen), command \in {EmptyString, Command} :
          cfg = [filterClass |-> value, filterAlt |-> EmptyString,
                 filterRegex |-> EmptyString, currentDesktop |-> FALSE,
                 toggle |-> FALSE, command |-> command]
    /\ args = [clientClass |-> EmptyString, clientCaption |-> EmptyString,
               clientClassRegex |-> EmptyString, toggle |-> FALSE,
               currentDesktopOnly |-> FALSE, dbusAddr |-> EmptyString]
    /\ scriptLoaded = FALSE
    /\ scriptPc = "idle"
    /\ matchingClients = << >>
    /\ inflight = << >>
    /\ obs = InitObs
    /\ InitRunIdle("start")

SpecEscape == InitEscape /\ [][Next]_vars

\* the same, with other bus peers calling the listener
NextMailbox ==
    \/ Next
    \/ SpuriousCall

SpecMailbox == Init /\ [][NextMailbox]_vars

NextCycler ==
    \/ ScriptFind
    \/ ScriptSignal
    \/ ScriptAct
    \/ HostRaise
    \/ CyclerInvoke

SpecCycler == InitCycler /\ [][NextCycler]_vars

\* number of invocations followed when the host raises every activated window
MaxCycles == 6

\* a further invocation once the host has raised the window activated by the
\* one before
CyclerInvokeRaised ==
    /\ scriptPc = "done"
    /\ obs.runs < MaxCycles
    /\ obs.activated # NoWindow => win[obs.activated].stackingOrder = NumWindows
    /\ scriptPc' = "find"
    /\ inflight' = << >>
    /\ UNCHANGED <<win, workspace, scriptLoaded, args, matchingClients, obs, log>>
    /\ UNCHANGED runVars

\* repeated invocations with the same flags over an unchanged window list,
\* the host raising each activated window before the next invocation
NextCycling ==
    \/ ScriptFind
    \/ ScriptSignal
    \/ ScriptAct
    \/ HostRaise
    \/ CyclerInvokeRaised

SpecCycling == InitCycler /\ [][NextCycling]_vars

(***************************************************************************)
(* Properties.                                                             *)
(***************************************************************************)
TimeoutError == "timeout waiting for response from KWin script"
StopError == "stop KWin script"

RunHasReturned == pc \in {"returned", "exited"}
FallbackConfigured == cfg.command # EmptyString
ScriptEvaluated == obs.runs >= 1 /\ scriptPc = "done"

MinimizedOf(w) == [id \in Windows |-> w[id].minimized]

\* the match with the lowest / highest stackingOrder when the script began
LowestMatch ==
    CHOOSE m \in obs.matches :
        \A o \in obs.matches : obs.preWin[m].stackingOrder <= obs.preWin[o].stackingOrder
HighestMatch ==
    CHOOSE m \in obs.matches :
        \A o \in obs.matches : obs.preWin[m].stackingOrder >= obs.preWin[o].stackingOrder

\* this evaluation of the script left the active window and every minimized
\* state as they were when it began
NoStateChange ==
    /\ workspace.activeWindow = obs.preActive
    /\ MinimizedOf(win) = MinimizedOf(obs.preWin)

\* C1: whenever loadScript succeeded, the script's stop entry point has been
\* invoked by the time the process exits, on every exit path.
C1_StopBeforeExit ==
    (pc = "exited" /\ log.loadOk) => log.stopCalls >= 1

\* C2: the stop entry point is invoked at most once per invocation of run(),
\* whichever exit path is taken.
C2_StopAtMostOnce ==
    log.stopCalls <= 1

\* C3: with a fallback command configured, if no ShouldLaunch call arrives
\* after run succeeded, run() returns the timeout error, the script's stop
\* entry point has been invoked and the fallback command is not launched.
C3_TimeoutStillStops ==
    (RunHasReturned /\ FallbackConfigured /\ log.runOk /\ log.handled = << >>)
        => /\ err = TimeoutError
           /\ log.stopCalls >= 1
           /\ log.launchCalls = 0
           /\ (pc = "exited" => exitCode = 1)

C3_Witness ==
    /\ pc = "exited"
    /\ FallbackConfigured
    /\ log.runOk
    /\ log.handled = << >>
    /\ ScriptEvaluated
    /\ Cardinality(obs.matches) = 1
    /\ err = TimeoutError
    /\ log.stopCalls = 1

\* the position just before the launch is reached only after a stop call
LaunchFollowsStop ==
    /\ (pc = "launch" => log.stopCalls >= 1)
    /\ log.launchedAfterStop

\* C4 as stated: with a fallback command configured and an empty MatchSet,
\* when the callback arrives within the timeout the Orchestrator receives
\* no-match, invokes stop and launches the fallback command, never before
\* the stop call.
C4_Original ==
    /\ (RunHasReturned /\ FallbackConfigured /\ log.received /\ obs.runs = 1
        /\ obs.matches = {})
          => /\ shouldLaunch
             /\ log.stopCalls >= 1
             /\ log.launchCalls = 1
    /\ LaunchFollowsStop

\* C4 amended: with a fallback command configured and an empty MatchSet,
\* when the callback arrives within the timeout the Orchestrator receives
\* no-match and invokes stop; it launches the fallback command exactly when
\* that stop call returned no error, and never before the stop call.
C4_NoMatchLaunches ==
    /\ (RunHasReturned /\ FallbackConfigured /\ log.received /\ obs.runs = 1
        /\ obs.matches = {})
          => /\ shouldLaunch
             /\ log.stopCalls >= 1
             /\ (log.stopOk => log.launchCalls = 1)
             /\ (~log.stopOk => log.launchCalls = 0 /\ err = StopError)
    /\ LaunchFollowsStop

C4_Witness ==
    /\ pc = "exited"
    /\ FallbackConfigured
    /\ obs.runs = 1
    /\ obs.matches = {}
    /\ log.received
    /\ shouldLaunch
    /\ log.stopOk
    /\ log.launchCalls = 1
    /\ err = None

\* C5: the fallback command is launched only if the decision consumed is
\* no-match (true): never when it is handled (false, the MatchSet had a
\* window), never after a timeout, a run-call failure or an export failure,
\* and never when no fallback command is configured.
C5_LaunchOnlyOnNoMatch ==
    /\ log.launchCalls > 0
          => /\ log.received
             /\ shouldLaunch
             /\ FallbackConfigured
             /\ obs.runs = 1
             /\ obs.matches = {}
             /\ log.runOk
             /\ err \in {None, "launch command"}
    /\ log.launchCalls <= 1

C5_Witness ==
    /\ pc = "unwind"
    /\ log.launchCalls = 1
    /\ shouldLaunch
    /\ obs.matches = {}

\* C6: ShouldLaunch never blocks; a delivery made while the slot is empty,
\* also before the Orchestrator waits, fills the slot and stays there until
\* waitForDecision returns it; a delivery made while the slot is full is
\* dropped and leaves the slot as it was.
C6_Mailbox ==
    /\ []((inflight # << >> /\ exported /\ connOpen /\ pc # "exited")
            => ENABLED ShouldLaunch)
    /\ [](Len(ch) <= ChanCap)
    /\ [][/\ (log'.handled # log.handled)
                => IF ch = << >>
                   THEN ch' = <<log'.handled[Len(log'.handled)]>>
                   ELSE ch' = ch /\ log'.dropped = log.dropped + 1
          /\ (ch # << >> /\ ch' # ch)
                => /\ pc = "wait"
                   /\ pc' = "stop"
                   /\ shouldLaunch' = Head(ch)
                   /\ ch' = << >>]_vars

C6_Witness ==
    /\ log.early
    /\ log.dropped >= 1
    /\ log.received
    /\ pc = "stop"
    /\ shouldLaunch = log.handled[1]
    /\ Len(log.handled) = 2
    /\ log.handled[2] # log.handled[1]

\* C7: when the MatchSet has a window and a callback address is configured,
\* the handled signal ('false') is emitted before the script changes the
\* active window or any window's minimized state.
C7_SignalBeforeChange ==
    [][(/\ args.dbusAddr # EmptyString
        /\ \/ obs'.setActiveCalls > obs.setActiveCalls
           \/ obs'.toggles > obs.toggles
           \/ workspace'.activeWindow # workspace.activeWindow
           \/ MinimizedOf(win') # MinimizedOf(win))
          => obs.sent = <<FalseString>>]_vars

C7_Witness ==
    /\ ScriptEvaluated
    /\ args.dbusAddr # EmptyString
    /\ obs.matches # {}
    /\ obs.sent = <<FalseString>>
    /\ obs.setActiveCalls = 1
    /\ workspace.activeWindow # obs.preActive

\* C8 as stated: an empty MatchSet always yields the no-match signal and
\* changes neither the active window nor any minimized state.
C8_Original ==
    (ScriptEvaluated /\ obs.matches = {})
        => /\ obs.sent = <<TrueString>>
           /\ obs.setActiveCalls = 0
           /\ obs.toggles = 0
           /\ NoStateChange

\* C8 amended: an empty MatchSet yields the no-match signal whenever a
\* callback address is configured (and no signal when none is), and changes
\* neither the active window nor any minimized state.
C8_NoMatchSignals ==
    (ScriptEvaluated /\ obs.matches = {})
        => /\ (args.dbusAddr # EmptyString => obs.sent = <<TrueString>>)
           /\ (args.dbusAddr = EmptyString => obs.sent = << >>)
           /\ obs.setActiveCalls = 0
           /\ obs.toggles = 0
           /\ NoStateChange

C8_Witness ==
    /\ ScriptEvaluated
    /\ obs.matches = {}
    /\ args.dbusAddr # EmptyString
    /\ obs.sent = <<TrueString>>
    /\ workspace.activeWindow # NoWindow
    /\ \E id \in Windows : win[id].minimized

\* C9: for a MatchSet of two or more windows the script activates the match
\* with the lowest stackingOrder if the active window is a match, and the
\* match with the highest stackingOrder otherwise.
C9_CyclingTarget ==
    (ScriptEvaluated /\ Cardinality(obs.matches) >= 2)
        => /\ obs.activated =
                 (IF obs.preActive \in obs.matches THEN LowestMatch ELSE HighestMatch)
           /\ workspace.activeWindow = obs.activated
           /\ obs.setActiveCalls = 1

\* classes {Konsole, Konsole, Dolphin}, exactClass = Konsole, none active:
\* two matches, the one with the higher stackingOrder is activated
C9_Witness ==
    /\ ScriptEvaluated
    /\ obs.runs = 1
    /\ args.clientClass = Konsole
    /\ win[1].resourceClass = Konsole
    /\ win[2].resourceClass = Konsole
    /\ \A id \in Windows \ {1, 2} : win[id].resourceClass = Dolphin
    /\ obs.preActive = NoWindow
    /\ Cardinality(obs.matches) = 2
    /\ obs.preWin[1].stackingOrder > obs.preWin[2].stackingOrder
    /\ workspace.activeWindow = 1

\* a second evaluation, toggle unset, same MatchSet, the window the first
\* evaluation activated (or left active) being the active window
SecondRun ==
    /\ ScriptEvaluated
    /\ obs.runs >= 2
    /\ ~args.toggle
    /\ obs.matches # {}
    /\ obs.matches = obs.prevMatches
    /\ obs.preActive \in obs.matches
    /\ obs.prevActivated # NoWindow => obs.preActive = obs.prevActivated

\* C10 as stated: for every MatchSet of size >= 1 the second evaluation
\* produces no further state change.
C10_Original ==
    SecondRun => NoStateChange

\* C10 amended: the second evaluation produces no further state change
\* exactly when the active window is the match with the lowest
\* stackingOrder, which is always so for a MatchSet of one window.
C10_SecondRun ==
    SecondRun
        => /\ NoStateChange <=> obs.preActive = LowestMatch
           /\ Cardinality(obs.matches) = 1 => NoStateChange

C10_Witness ==
    /\ SecondRun
    /\ obs.runs = 2
    /\ Cardinality(obs.matches) = 1
    /\ obs.prevActivated # NoWindow
    /\ NoStateChange

\* the single match of this evaluation
SingleMatch == CHOOSE m \in obs.matches : TRUE

\* C11: with exactly one match w: w not active: w becomes the active window
\* and no minimized state changes; w active and toggle set: w's minimized
\* state flips and the active window stays; w active and toggle unset:
\* nothing changes.
C11_SingleMatch ==
    (ScriptEvaluated /\ Cardinality(obs.matches) = 1)
        => LET w == SingleMatch
           IN  /\ obs.preActive # w
                     => /\ workspace.activeWindow = w
                        /\ obs.setActiveCalls = 1
                        /\ obs.toggles = 0
                        /\ MinimizedOf(win) = MinimizedOf(obs.preWin)
               /\ (obs.preActive = w /\ args.toggle)
                     => /\ win[w].minimized = ~obs.preWin[w].minimized
                        /\ \A o \in Windows \ {w} :
                              win[o].minimized = obs.preWin[o].minimized
                        /\ workspace.activeWindow = w
                        /\ obs.setActiveCalls = 0
                        /\ obs.toggles = 1
               /\ (obs.preActive = w /\ ~args.toggle)
                     => /\ NoStateChange
                        /\ obs.setActiveCalls = 0
                        /\ obs.toggles = 0

C11_Witness ==
    /\ ScriptEvaluated
    /\ Cardinality(obs.matches) = 1
    /\ obs.preActive = SingleMatch
    /\ args.toggle
    /\ obs.toggles = 1
    /\ win[SingleMatch].minimized = ~obs.preWin[SingleMatch].minimized

\* C20: with two or more matches one evaluation never changes a minimized
\* state, whatever toggle and the active window are; and every evaluation
\* makes at most one host-visible change: one set-active-window or one
\* minimized flip, never both.
C20_Frame ==
    ScriptEvaluated
        => /\ Cardinality(obs.matches) >= 2
                 => /\ obs.toggles = 0
                    /\ MinimizedOf(win) = MinimizedOf(obs.preWin)
           /\ obs.setActiveCalls + obs.toggles <= 1
           /\ \/ workspace.activeWindow = obs.preActive
              \/ MinimizedOf(win) = MinimizedOf(obs.preWin)
           /\ Cardinality({id \in Windows :
                  win[id].minimized # obs.preWin[id].minimized}) <= 1

C20_Witness ==
    /\ ScriptEvaluated
    /\ Cardinality(obs.matches) >= 2
    /\ args.toggle
    /\ obs.preActive = LowestMatch
    /\ obs.activated = obs.preActive
    /\ obs.setActiveCalls = 1
    /\ MinimizedOf(win) = MinimizedOf(obs.preWin)

\* pattern p occurs in s / occurs in s when the case of letters is ignored
Occurs(p, s) ==
    \E i \in 1..(Len(s) + 1), j \in 0..Len(s) : SubSeq(s, i, j) = p
OccursIgnoringCase(p, s) == Occurs(ToLower(p), ToLower(s))

ExactClassSet == args.clientClass # EmptyString
ClassRegexSet == args.clientClassRegex # EmptyString
ExactClassHit(id) == ExactClassSet /\ win[id].resourceClass = args.clientClass
ClassRegexHit(id) ==
    ClassRegexSet /\ Occurs(args.clientClassRegex, win[id].resourceClass)
CaptionHit(id) == OccursIgnoringCase(args.clientCaption, win[id].caption)
InMatchSet(id) == id \in obs.matches

\* the class / caption part of the filter, without the desktop filter
PassesFilter(id) ==
    IF ExactClassSet \/ ClassRegexSet
    THEN ExactClassHit(id) \/ ClassRegexHit(id)
    ELSE CaptionHit(id)

\* what C12 says besides the exclusion of a window whose class differs
PrecedenceRest(id) ==
    /\ (ExactClassSet \/ ClassRegexSet)
          => (InMatchSet(id) => ExactClassHit(id) \/ ClassRegexHit(id))
    /\ (~ExactClassSet /\ ~ClassRegexSet /\ ~args.currentDesktopOnly)
          => (InMatchSet(id) <=> CaptionHit(id))
    /\ (ExactClassHit(id) /\ ~args.currentDesktopOnly) => InMatchSet(id)
    /\ (ClassRegexHit(id) /\ ~args.currentDesktopOnly) => InMatchSet(id)
    /\ ClientMatches(win[id], EmptyString, EmptyString, EmptyString, FALSE,
                     workspace.currentDesktop)

\* C12 as stated: the caption pattern is consulted only when both class
\* filters are empty (an empty pattern then matches every window); when
\* exactClass is set a window whose resourceClass is not exactly equal to it
\* is not in the MatchSet; class-regex is tried after exact-class.
C12_Original ==
    obs.runs >= 1
        => \A id \in Windows :
              /\ PrecedenceRest(id)
              /\ (ExactClassSet /\ win[id].resourceClass # args.clientClass)
                    => ~InMatchSet(id)

\* C12 amended: as stated, except that with exactClass set a window whose
\* resourceClass is not exactly equal to it is not in the MatchSet unless
\* classRegex is also set and finds a match in its resourceClass.
C12_Precedence ==
    obs.runs >= 1
        => \A id \in Windows :
              /\ PrecedenceRest(id)
              /\ (ExactClassSet /\ win[id].resourceClass # args.clientClass
                  /\ ~ClassRegexHit(id))
                    => ~InMatchSet(id)

C12_Witness ==
    /\ obs.runs >= 1
    /\ args.clientClass = Konsole
    /\ args.clientClassRegex = EmptyString
    /\ win[1].resourceClass = <<"k", "o">>
    /\ CaptionHit(1)
    /\ ~InMatchSet(1)

\* C13: with currentDesktopOnly set, a window passing the class / caption
\* filter is in the MatchSet iff it is on all desktops, or its desktop set
\* contains the current desktop, or the current desktop or the window's
\* desktop set is unavailable; with currentDesktopOnly unset desktop
\* membership never excludes a window.
C13_DesktopFilter ==
    obs.runs >= 1
        => \A id \in Windows :
              LET onDesktop ==
                      \/ win[id].onAllDesktops
                      \/ workspace.currentDesktop = Undefined
                      \/ win[id].desktops = UndefinedDesktops
                      \/ workspace.currentDesktop \in win[id].desktops
              IN  /\ args.currentDesktopOnly
                        => (InMatchSet(id) <=> PassesFilter(id) /\ onDesktop)
                  /\ ~args.currentDesktopOnly
                        => (InMatchSet(id) <=> PassesFilter(id))

C13_Witness ==
    /\ obs.runs >= 1
    /\ args.currentDesktopOnly
    /\ ~win[1].onAllDesktops
    /\ win[1].desktops = {Desktop2}
    /\ workspace.currentDesktop = Undefined
    /\ InMatchSet(1)

NoFilter ==
    /\ cfg.filterClass = EmptyString
    /\ cfg.filterAlt = EmptyString
    /\ cfg.filterRegex = EmptyString

\* C14: with exactClass, captionPattern and classRegex all empty, run()
\* returns an error without any host interaction: no bus connection, no
\* temporary file, and no load, export, run, stop or launch.
C14_NoFilterNoInteraction ==
    NoFilter
        => /\ log.hostCalls = 0
           /\ ~connOpen
           /\ ~tempFile
           /\ ~scriptLoaded
           /\ ~log.loadOk
           /\ ~exported
           /\ scriptPc = "idle"
           /\ log.stopCalls = 0
           /\ log.launchCalls = 0
           /\ defers = << >>
           /\ pc \in {"start", "unwind", "returned", "exited"}
           /\ pc # "start" => err = "no filter"
           /\ pc = "exited" => exitCode = 1

C14_Witness ==
    /\ NoFilter
    /\ pc = "exited"
    /\ err = "no filter"
    /\ exitCode = 1
    /\ log.hostCalls = 0

\* C15: a failure to launch the fallback command, after a no-match decision
\* and a successful stop, is non-fatal: the invocation does not exit with
\* status 1 because of it.
C15_LaunchFailureNonFatal ==
    (pc = "exited" /\ log.received /\ shouldLaunch /\ log.stopOk
     /\ log.launchCalls = 1 /\ err = "launch command")
        => exitCode # 1

\* the text, read as the inside of a '...' literal, holds a quote that no
\* backslash escapes
RECURSIVE HasUnescapedQuote(_)
HasUnescapedQuote(text) ==
    IF text = << >> THEN FALSE
    ELSE IF Head(text) = SQ THEN TRUE
    ELSE IF Head(text) = BS
         THEN Len(text) > 1 /\ HasUnescapedQuote(Tail(Tail(text)))
    ELSE HasUnescapedQuote(Tail(text))

\* the text ends in a backslash that would escape the closing quote
RECURSIVE EndsInOpenEscape(_)
EndsInOpenEscape(text) ==
    IF text = << >> THEN FALSE
    ELSE IF Head(text) = BS
         THEN Len(text) = 1 \/ EndsInOpenEscape(Tail(Tail(text)))
    ELSE EndsInOpenEscape(Tail(text))

HasRawLineTerminator(text) == \E i \in 1..Len(text) : text[i] \in {NL, CR}

\* C16: for every string over backslash, quote, newline, carriage return,
\* tab and letters, the escaped text between single quotes has no unescaped
\* quote and no raw line terminator, and the script reads back the original.
C16_EscapeRoundTrip ==
    LET text == escapeForJS(cfg.filterClass)
    IN  /\ ~HasUnescapedQuote(text)
        /\ ~EndsInOpenEscape(text)
        /\ ~HasRawLineTerminator(text)
        /\ log.loadOk
              => /\ args.clientClass = cfg.filterClass
                 /\ args.dbusAddr = dbusAddress

C16_Witness ==
    /\ log.loadOk
    /\ cfg.filterClass = <<BS, SQ, NL>>
    /\ args.clientClass = <<BS, SQ, NL>>
    /\ escapeForJS(cfg.filterClass) = <<BS, BS, BS, SQ, BS, "n">>

\* the Orchestrator reads the channel in this step
ReadsChannel == pc = "wait" /\ pc' = "stop"

\* C17 as stated: if two ShouldLaunch deliveries with different values arrive
\* before the Orchestrator reads the channel, waitForDecision returns the
\* one delivered last.
C17_Original ==
    [][(/\ ReadsChannel
        /\ Len(log.handled) >= 2
        /\ log.handled[1] # log.handled[Len(log.handled)])
          => shouldLaunch' = log.handled[Len(log.handled)]]_vars

\* C17 amended: if two ShouldLaunch deliveries with different values arrive
\* before the Orchestrator reads the channel, waitForDecision returns the
\* one delivered first; the later one is dropped.
C17_FirstWriterWins ==
    [][(ReadsChannel /\ Len(log.handled) >= 2)
          => /\ shouldLaunch' = log.handled[1]
             /\ log.dropped = Len(log.handled) - 1]_vars

C17_Witness ==
    /\ pc = "stop"
    /\ log.received
    /\ log.handled = <<TRUE, FALSE>>
    /\ log.dropped = 1
    /\ shouldLaunch = TRUE

\* the deferred unregistration has not run yet
UnexportPending == \E i \in 1..Len(defers) : defers[i] = "unexport"

\* C18: with a fallback command the listener is registered when the script's
\* run entry point is invoked, and once run() is unwinding past the deferred
\* unregistration, or has returned, the listener is no longer registered;
\* without a fallback command no listener is ever registered and the
\* Orchestrator never waits for a notification.
C18_ListenerLifecycle ==
    /\ [][(pc = "run" /\ pc' = "run reply" /\ FallbackConfigured)
             => exported]_vars
    /\ []((RunHasReturned \/ (pc = "unwind" /\ ~UnexportPending)) => ~exported)
    /\ [](~FallbackConfigured => (~exported /\ pc # "wait"))

C18_Witness ==
    /\ pc = "returned"
    /\ FallbackConfigured
    /\ log.runOk
    /\ log.launchCalls = 1
    /\ err = "launch command"
    /\ ~exported

\* the active window in the starting state and after each invocation so far
ActiveHistory == Append(obs.actives, workspace.activeWindow)

\* C19: with n >= 2 matches and the host raising every activated window,
\* every match has been the active window in the starting state or after
\* one of the first n invocations, every invocation activates a match, and
\* from the first invocation on the activated windows repeat with period n,
\* n consecutive ones being n different windows.
C19_RoundRobin ==
    LET n == Cardinality(obs.matches)
        s == ActiveHistory
    IN  (ScriptEvaluated /\ n >= 2)
           => /\ Len(s) = obs.runs + 1
              /\ obs.setActiveCalls = 1
              /\ obs.activated = workspace.activeWindow
              /\ obs.activated \in obs.matches
              /\ obs.runs >= n
                    => obs.matches \subseteq {s[j] : j \in 1..(n + 1)}
              /\ \A j \in 2..Len(s) :
                    /\ j + n <= Len(s) => s[j + n] = s[j]
                    /\ j + n - 1 <= Len(s)
                          => {s[i] : i \in j..(j + n - 1)} = obs.matches

C19_Witness ==
    /\ ScriptEvaluated
    /\ Cardinality(obs.matches) = 3
    /\ obs.runs = 6
    /\ ActiveHistory[1] \notin obs.matches
    /\ {ActiveHistory[j] : j \in 2..4} = obs.matches
    /\ ActiveHistory[5] = ActiveHistory[2]
    /\ ActiveHistory[7] = ActiveHistory[4]

====
